---- MODULE Spec2Model ----
(***************************************************************************)
(* Model of the guided-tour core of web-teacher:                           *)
(*   StepController  (core/guide/step-controller.ts)                       *)
(*   GuideSystem     (core/guide/index.ts) driving a driver.js overlay     *)
(*   validateSelector / validateLessonSteps (step-controller.ts)           *)
(*   TTSController   (core/tts/index.ts) over NativeTTSProvider and the    *)
(*                   browser's speechSynthesis queue                       *)
(*   RateLimiter     (utils/security.ts)                                   *)
(*   the content script (entrypoints/content.ts), which owns one           *)
(*                   GuideSystem and one TTSController per page            *)
(* JavaScript is single threaded: every public method and every timer      *)
(* callback runs to completion, so each is one atomic action here.  An     *)
(* async method is one action up to each await and one per continuation.   *)
(***************************************************************************)
EXTENDS Integers, Sequences, FiniteSets, Bags, TLC

\* ---------------------------------------------------------------- bounds
MaxSteps  == 3      \* longest lesson plan explored
MaxDelay  == 2      \* longest autoAdvanceDelay, in clock ticks
MaxTimers == 2      \* most setTimeout timers pending at once
MaxTexts  == 3      \* texts handed to enqueue() and speak() in one run
MaxSpoken == 1      \* SPEAK_TEXT commands one narration controller gets
MaxCalls  == 3      \* throttle() calls on one RateLimiter
MaxClock  == 6      \* latest reading of Date.now(), in clock ticks
MinInterval == 2    \* minInterval of the RateLimiter, in clock ticks

VARIABLES
  lessonPlan,        \* StepController.lessonPlan (NullPlan when null)
  state,             \* StepController.state
  settings,          \* StepController.settings
  autoAdvanceTimer,  \* StepController.autoAdvanceTimer: "null" or "id"
  events,            \* names of the callbacks StepController.events holds
  timers,            \* the page's pending setTimeout timers, a bag of
                     \* [held, due]: held = its id is the one stored in
                     \* autoAdvanceTimer, due = clock ticks until it fires
  fired,             \* callbacks invoked by the last operation, in order
  ret,               \* what the last operation returned
  op,                \* the last operation
  run,               \* history since the last start(): next() results, events
  driverInstance,    \* GuideSystem.driverInstance (NoDriver when null)
  guidePlan,         \* GuideSystem.lessonPlan (NullPlan when null)
  isInitialized,     \* GuideSystem.isInitialized
  validator,         \* one call of validateLessonSteps and of
                     \* validateSelector: arguments and results
  tts,               \* a TTSController, its provider's speak() calls in
                     \* flight and the speechSynthesis utterance queue
  page,              \* the content script's globals guideSystem and
                     \* ttsController, and what its instances left behind
  limiter            \* a RateLimiter, the clock and its throttle() calls

guideVars == <<driverInstance, guidePlan, isInitialized>>
otherVars == <<validator, tts, page, limiter>>
vars      == <<lessonPlan, state, settings, autoAdvanceTimer, events, timers,
               fired, ret, op, run, driverInstance, guidePlan, isInitialized,
               validator, tts, page, limiter>>

\* ------------------------------------------------------------ data model
\* The selectors a step may carry: none, one that resolves in the page, one
\* that resolves to nothing, one that makes querySelector throw.
StepTargets == {"", ".found", ".gone", "[bad"}

\* The strings handed to validateSelector: those, and one that matches two
\* elements, one of 600 characters, one of 25 parts and one holding a
\* nested :has(), the last three each matching one element.
Selectors == StepTargets \cup {".many", ".long", ".deep", ":has"}

Step(i, sel) == [id |-> i, targetSelector |-> sel]
NoStep       == [id |-> 0, targetSelector |-> ""]
NullPlan     == [id |-> 0, steps |-> <<>>]
NoDriver     == [active |-> FALSE, activeIndex |-> 0, length |-> 0]

\* Plans handed directly to StepController.load: 0..MaxSteps steps.
PlainPlan(n) == [id |-> n + 1, steps |-> [i \in 1..n |-> Step(i, "")]]
Plans        == {PlainPlan(n) : n \in 0..MaxSteps}

Delays == 0..MaxDelay

AllEvents == {"onStepChange", "onComplete", "onStart", "onPause", "onResume",
              "onError"}

RunOff == [on |-> FALSE, rets |-> <<>>, changes |-> <<>>, completes |-> 0]

\* The controller (and the timer heap it schedules on) as one value, so the
\* methods compose the way the calls nest in the source.
Ctl == [lessonPlan |-> lessonPlan, state |-> state, settings |-> settings,
        autoAdvanceTimer |-> autoAdvanceTimer, events |-> events,
        timers |-> timers, fired |-> <<>>, ret |-> "void"]

InitialState == [currentStepIndex |-> 0, isPlaying |-> FALSE,
                 isPaused |-> FALSE, isCompleted |-> FALSE]

\* events.onX?.(...): the callback runs only if it is subscribed.
Emit(c, e) == IF e[1] \in c.events THEN [c EXCEPT !.fired = Append(@, e)] ELSE c

\* ------------------------------------------------------- StepController
getTotalSteps(c) == Len(c.lessonPlan.steps)

getCurrentStep(c) ==
  IF c.lessonPlan.id = 0 \/ Len(c.lessonPlan.steps) = 0 THEN NoStep
  ELSE IF c.state.currentStepIndex + 1 \in DOMAIN c.lessonPlan.steps
       THEN c.lessonPlan.steps[c.state.currentStepIndex + 1]
       ELSE NoStep

\* Timer ids are opaque and the controller only ever passes the stored one
\* to clearTimeout, so a pending timer is identified by whether it is the
\* stored one (held) or one whose id was overwritten (an orphan).
Held(T)    == [t \in {x \in DOMAIN T : x.held} |-> T[t]]
Orphans(T) == [t \in {x \in DOMAIN T : ~x.held} |-> T[t]]

\* T once the field that held an id is overwritten: every timer is an orphan.
Orphaned(T) ==
  LET dues == {x.due : x \in DOMAIN T} IN
  [t \in {[held |-> FALSE, due |-> d] : d \in dues} |->
     CopiesIn([held |-> FALSE, due |-> t.due], T)
       + CopiesIn([held |-> TRUE, due |-> t.due], T)]

\* clearTimeout(id): the timer with that id, if still pending, is removed.
clearTimeout(T) == Orphans(T)

\* setTimeout(cb, delay), its id stored in the field: T gains a held timer.
setTimeout(T, delay) ==
  Orphaned(T) (+) SetToBag({[held |-> TRUE, due |-> delay]})

stopAutoAdvance(c) ==
  IF c.autoAdvanceTimer # "null"
  THEN [c EXCEPT !.timers = clearTimeout(@), !.autoAdvanceTimer = "null"]
  ELSE c

startAutoAdvanceIfEnabled(c) ==
  IF c.settings.autoAdvance /\ ~c.state.isPaused
  THEN [c EXCEPT !.timers = setTimeout(@, c.settings.autoAdvanceDelay),
                 !.autoAdvanceTimer = "id"]
  ELSE c

restartAutoAdvanceIfEnabled(c) ==
  startAutoAdvanceIfEnabled(stopAutoAdvance(c))

emitStepChange(c) ==
  LET step == getCurrentStep(c) IN
  IF step # NoStep
  THEN Emit(c, <<"onStepChange", c.state.currentStepIndex, step>>)
  ELSE c

reset(c) == [stopAutoAdvance(c) EXCEPT !.state = InitialState]

load(c, plan) == reset([c EXCEPT !.lessonPlan = plan])

StartStateKeepsIndex(s) ==
  [s EXCEPT !.isPlaying = TRUE, !.isPaused = FALSE, !.isCompleted = FALSE]

StartState(s) == [currentStepIndex |-> 0, isPlaying |-> TRUE,
                  isPaused |-> FALSE, isCompleted |-> FALSE]

start(c) ==
  IF c.lessonPlan.id = 0
  THEN Emit(c, <<"onError">>)
  ELSE startAutoAdvanceIfEnabled(
         emitStepChange(
           Emit([c EXCEPT !.state = StartState(@)], <<"onStart">>)))

pause_unguarded(c) ==
  IF ~c.state.isPlaying THEN c
  ELSE Emit(stopAutoAdvance([c EXCEPT !.state.isPaused = TRUE]), <<"onPause">>)

pause(c) ==
  IF ~c.state.isPlaying \/ c.state.isPaused THEN c
  ELSE Emit(stopAutoAdvance([c EXCEPT !.state.isPaused = TRUE]), <<"onPause">>)

resume_noRearm(c) ==
  IF ~c.state.isPlaying \/ ~c.state.isPaused THEN c
  ELSE Emit([c EXCEPT !.state.isPaused = FALSE], <<"onResume">>)

resume(c) ==
  IF ~c.state.isPlaying \/ ~c.state.isPaused THEN c
  ELSE startAutoAdvanceIfEnabled(
         Emit([c EXCEPT !.state.isPaused = FALSE], <<"onResume">>))

stop(c) ==
  [stopAutoAdvance(c) EXCEPT !.state.isPlaying = FALSE,
                             !.state.isPaused = FALSE]

CompleteStateStillPlaying(s) == [s EXCEPT !.isCompleted = TRUE]

CompleteState(s) == [s EXCEPT !.isCompleted = TRUE, !.isPlaying = FALSE]

complete_silent(c) ==
  stopAutoAdvance([c EXCEPT !.state = CompleteState(@)])

complete(c) ==
  Emit(stopAutoAdvance([c EXCEPT !.state = CompleteState(@)]),
       <<"onComplete">>)

next_ignoresCompleted(c) ==
  IF c.lessonPlan.id = 0
  THEN [c EXCEPT !.ret = "false"]
  ELSE LET nextIndex == c.state.currentStepIndex + 1 IN
       IF nextIndex >= Len(c.lessonPlan.steps)
       THEN [complete(c) EXCEPT !.ret = "false"]
       ELSE [restartAutoAdvanceIfEnabled(
               emitStepChange([c EXCEPT !.state.currentStepIndex = nextIndex]))
             EXCEPT !.ret = "true"]

next(c) ==
  IF c.lessonPlan.id = 0 \/ c.state.isCompleted
  THEN [c EXCEPT !.ret = "false"]
  ELSE LET nextIndex == c.state.currentStepIndex + 1 IN
       IF nextIndex >= Len(c.lessonPlan.steps)
       THEN [complete(c) EXCEPT !.ret = "false"]
       ELSE [restartAutoAdvanceIfEnabled(
               emitStepChange([c EXCEPT !.state.currentStepIndex = nextIndex]))
             EXCEPT !.ret = "true"]

previous_wraps(c) ==
  IF c.lessonPlan.id = 0
  THEN [c EXCEPT !.ret = "false"]
  ELSE [restartAutoAdvanceIfEnabled(
          emitStepChange([c EXCEPT !.state.currentStepIndex =
                                     IF @ = 0 THEN 0 ELSE @ - 1,
                                   !.state.isCompleted = FALSE]))
        EXCEPT !.ret = "true"]

previous(c) ==
  IF c.lessonPlan.id = 0 \/ c.state.currentStepIndex = 0
  THEN [c EXCEPT !.ret = "false"]
  ELSE [restartAutoAdvanceIfEnabled(
          emitStepChange([c EXCEPT !.state.currentStepIndex = @ - 1,
                                   !.state.isCompleted = FALSE]))
        EXCEPT !.ret = "true"]

IndexInRangeInclusive(index, n) == ~(index < 0 \/ index > n)

IndexInRange(index, n) == ~(index < 0 \/ index >= n)

goToStep(c, index) ==
  IF c.lessonPlan.id = 0
  THEN [c EXCEPT !.ret = "false"]
  ELSE IF ~IndexInRange(index, Len(c.lessonPlan.steps))
  THEN [c EXCEPT !.ret = "false"]
  ELSE [restartAutoAdvanceIfEnabled(
          emitStepChange([c EXCEPT !.state.currentStepIndex = index,
                                   !.state.isCompleted = FALSE]))
        EXCEPT !.ret = "true"]

\* A Partial<GuideSettings>: each key present or absent.
Partials ==
  {p \in [hasAutoAdvance : BOOLEAN, autoAdvance : BOOLEAN,
          hasDelay : BOOLEAN, autoAdvanceDelay : Delays] :
     /\ ~p.hasAutoAdvance => ~p.autoAdvance
     /\ ~p.hasDelay => p.autoAdvanceDelay = 1}

Merge(s, p) ==
  [autoAdvance      |-> IF p.hasAutoAdvance THEN p.autoAdvance
                        ELSE s.autoAdvance,
   autoAdvanceDelay |-> IF p.hasDelay THEN p.autoAdvanceDelay
                        ELSE s.autoAdvanceDelay]

updateSettings(c, p) ==
  LET merged == [c EXCEPT !.settings = Merge(@, p)] IN
  IF p.hasAutoAdvance \/ p.hasDelay
  THEN restartAutoAdvanceIfEnabled(merged)
  ELSE merged

destroy(c) ==
  [stopAutoAdvance(c) EXCEPT !.lessonPlan = NullPlan, !.events = {}]

timerCallback_ignoresPlaying(c) ==
  IF ~c.state.isPaused THEN next(c) ELSE c

timerCallback_whenPaused(c) ==
  IF c.state.isPaused /\ c.state.isPlaying THEN next(c) ELSE c

\* The setTimeout callback armed by startAutoAdvanceIfEnabled.
timerCallback(c) ==
  IF ~c.state.isPaused /\ c.state.isPlaying THEN next(c) ELSE c

\* ------------------------------------------------ history since start()
\* The indices reported by onStepChange, and the number of onComplete, in a
\* sequence of fired callbacks.
RECURSIVE ChangesIn(_)
ChangesIn(f) ==
  IF f = <<>> THEN <<>>
  ELSE IF Head(f)[1] = "onStepChange"
       THEN <<Head(f)[2]>> \o ChangesIn(Tail(f))
       ELSE ChangesIn(Tail(f))

RECURSIVE CountIn(_, _)
CountIn(f, name) ==
  IF f = <<>> THEN 0
  ELSE (IF Head(f)[1] = name THEN 1 ELSE 0) + CountIn(Tail(f), name)

\* run follows the scenario "a fresh start() (no timer of an earlier run
\* still pending, the callbacks still subscribed) with autoAdvance disabled
\* on a plan of N >= 1 steps, then only next() calls (at most N)".  Any
\* other call ends the scenario.
RunAfter(name, c) ==
  LET more == [on |-> TRUE,
               rets |-> run.rets,
               changes |-> run.changes \o ChangesIn(c.fired),
               completes |-> run.completes + CountIn(c.fired, "onComplete")]
  IN
  CASE name = "start" ->
         IF /\ Len(c.lessonPlan.steps) >= 1
            /\ ~c.settings.autoAdvance
            /\ c.timers = EmptyBag
            /\ {"onStepChange", "onComplete"} \subseteq c.events
         THEN [on |-> TRUE, rets |-> <<>>, changes |-> ChangesIn(c.fired),
               completes |-> CountIn(c.fired, "onComplete")]
         ELSE RunOff
    [] name = "next" ->
         IF run.on /\ Len(run.rets) < Len(c.lessonPlan.steps)
         THEN [more EXCEPT !.rets = Append(@, c.ret)]
         ELSE RunOff
    [] name = "timer" -> IF run.on THEN more ELSE RunOff
    [] name = "tick" -> run
    [] OTHER -> RunOff

\* ----------------------------------------------------------- GuideSystem
\* document.querySelector(selector): an element, null, or a SyntaxError.
querySelector(sel) ==
  CASE sel \in {".found", ".many", ".long", ".deep", ":has"} -> "element"
    [] sel \in {"[bad", ""}                                  -> "throws"
    [] OTHER                                                 -> "null"

validateSelector(sel) ==
  IF querySelector(sel) = "throws" THEN FALSE
  ELSE querySelector(sel) # "null"

validSteps_keepsAll(steps) == steps

validSteps_dropsUntargeted(steps) ==
  SelectSeq(steps, LAMBDA step : step.targetSelector # ""
                                   /\ querySelector(step.targetSelector) = "element")

\* validateLessonSteps(steps).valid: the steps kept, in their order.
RECURSIVE validSteps(_)
validSteps(steps) ==
  IF steps = <<>> THEN <<>>
  ELSE LET step == Head(steps) IN
       IF step.targetSelector # ""
       THEN IF validateSelector(step.targetSelector)
            THEN <<step>> \o validSteps(Tail(steps))
            ELSE validSteps(Tail(steps))
       ELSE <<step>> \o validSteps(Tail(steps))

\* validateLessonSteps(steps).invalid: the steps dropped, in their order.
RECURSIVE invalidSteps(_)
invalidSteps(steps) ==
  IF steps = <<>> THEN <<>>
  ELSE LET step == Head(steps) IN
       IF step.targetSelector # "" /\ ~validateSelector(step.targetSelector)
       THEN <<step>> \o invalidSteps(Tail(steps))
       ELSE invalidSteps(Tail(steps))

validateLessonSteps(steps) ==
  [valid |-> validSteps(steps), invalid |-> invalidSteps(steps)]

\* No call of the validators made yet.
NotValidated == [steps |-> <<>>, selector |-> "", called |-> FALSE,
                 result |-> [valid |-> <<>>, invalid |-> <<>>],
                 accepted |-> FALSE]

\* --------------------------------------------------------- TTSController
\* A TTSController as its constructor leaves it, with settings.enabled as
\* given.  calls are the provider's speak() calls whose promise has not
\* settled, oldest first: [text, at, loop], where at is
\*   "returned"  TTSController.speak returned without calling the provider,
\*   "voices"    provider.speak is at `await this.loadVoices()`,
\*   "engine"    its utterance is in the speechSynthesis queue,
\*   "cancelled" speechSynthesis.cancel() removed its utterance and the
\*               error event that resolves the promise is still to come,
\* and loop says the drain loop of processQueue awaits it.  engine is the
\* speechSynthesis queue (its head is being spoken).  The rest is history:
\* issued counts the texts given to enqueue/speak, enqueued lists those
\* that entered the queue, handed those given to speechSynthesis.speak,
\* failed those whose playback failed, stale those enqueued before the
\* latest stop(), clean says only enqueue() has been called so far.
NewTTS(enabled) ==
  [enabled |-> enabled, provider |-> TRUE, queue |-> <<>>,
   isProcessing |-> FALSE, calls |-> <<>>, engine |-> <<>>,
   issued |-> 0, enqueued |-> <<>>, handed |-> <<>>, failed |-> {},
   stale |-> {}, clean |-> TRUE]

Call(text, at, loop) == [text |-> text, at |-> at, loop |-> loop]

Range(q) == {q[i] : i \in DOMAIN q}

Without(q, i) == [k \in 1..(Len(q) - 1) |-> IF k < i THEN q[k] ELSE q[k + 1]]

\* speechSynthesis.cancel(): every utterance leaves the queue; each gets an
\* error event ("interrupted" or "canceled") later.
cancel(t) ==
  [t EXCEPT !.engine = <<>>,
            !.calls = [i \in DOMAIN @ |->
                         IF @[i].at = "engine"
                         THEN [@[i] EXCEPT !.at = "cancelled"] ELSE @[i]]]

\* NativeTTSProvider.stop
providerStop(t) == cancel(t)

\* NativeTTSProvider.speak(text) up to its await (texts are not blank).
providerSpeak(t, text, loop) ==
  [providerStop(t) EXCEPT !.calls = Append(@, Call(text, "voices", loop))]

\* TTSController.speak(text) up to its await; loop: called by the drain loop.
T_speak(t, text, loop) ==
  IF ~t.enabled \/ ~t.provider
  THEN IF loop THEN [t EXCEPT !.calls = Append(@, Call(text, "returned", loop))]
       ELSE t
  ELSE providerSpeak(t, text, loop)

drain_keepsFlag(t) ==
  IF Len(t.queue) > 0
  THEN T_speak([t EXCEPT !.queue = Tail(@)], Head(t.queue), TRUE)
  ELSE t

\* The while loop of processQueue, from its test to its next await or exit.
drain(t) ==
  IF Len(t.queue) > 0
  THEN T_speak([t EXCEPT !.queue = Tail(@)], Head(t.queue), TRUE)
  ELSE [t EXCEPT !.isProcessing = FALSE]

processQueue(t) ==
  IF t.isProcessing \/ Len(t.queue) = 0 \/ ~t.provider THEN t
  ELSE drain([t EXCEPT !.isProcessing = TRUE])

T_enqueue_alwaysDrains(t, text) ==
  IF ~t.enabled THEN t
  ELSE drain([t EXCEPT !.queue = Append(@, text),
                       !.enqueued = Append(@, text),
                       !.isProcessing = TRUE])

T_enqueue(t, text) ==
  IF ~t.enabled THEN t
  ELSE LET t1 == [t EXCEPT !.queue = Append(@, text),
                           !.enqueued = Append(@, text)]
       IN IF ~t1.isProcessing THEN processQueue(t1) ELSE t1

T_stop(t) ==
  LET t1 == [t EXCEPT !.queue = <<>>, !.isProcessing = FALSE,
                      !.stale = Range(t.enqueued)]
  IN IF t1.provider THEN providerStop(t1) ELSE t1

T_setEnabled(t, enabled) ==
  LET t1 == [t EXCEPT !.enabled = enabled] IN
  IF ~enabled THEN T_stop(t1) ELSE t1

T_destroy(t) == [T_stop(t) EXCEPT !.provider = FALSE]

\* The continuation of provider.speak after `await this.loadVoices()`: the
\* utterance is created and given to speechSynthesis.speak.
voicesLoaded(t, i) ==
  [t EXCEPT !.calls[i].at = "engine",
            !.engine = Append(@, t.calls[i].text),
            !.handed = Append(@, t.calls[i].text)]

settled_aborts(t, i) == [t EXCEPT !.calls = Without(@, i)]

\* The promise of call i settles (resolved or rejected): the call is over,
\* and the drain loop, if it awaited it, goes on (its catch swallows a
\* rejection).
settled(t, i) ==
  LET t1 == [t EXCEPT !.calls = Without(@, i)] IN
  IF t.calls[i].loop THEN drain(t1) ELSE t1

\* The utterance being spoken, call i's, ends (onend) or fails (onerror).
playbackEnds(t, i)  == settled([t EXCEPT !.engine = Tail(@)], i)
playbackFails(t, i) ==
  settled([t EXCEPT !.engine = Tail(@), !.failed = @ \cup {t.calls[i].text}], i)

\* The overlay engine (driver.js) as the orchestrator uses it: a step list,
\* the index of the highlighted step, and whether it has been destroyed.
driver(n)          == [active |-> TRUE, activeIndex |-> 0, length |-> n]
drive(d, index)    == [d EXCEPT !.activeIndex = index]
hasNextStep(d)     == d.activeIndex + 1 < d.length
hasPreviousStep(d) == d.activeIndex - 1 >= 0
moveNext(d)        == [d EXCEPT !.activeIndex = @ + 1]
movePrevious(d)    == [d EXCEPT !.activeIndex = @ - 1]

\* The orchestrator with its controller, as one value.
Guide == [c |-> Ctl, driverInstance |-> driverInstance,
          guidePlan |-> guidePlan, isInitialized |-> isInitialized]

GEmit(g, e) == [g EXCEPT !.c.fired = Append(@, e)]

\* handleComplete, which the controller calls as its onComplete: the overlay
\* is destroyed, then onComplete is passed on to the caller.
handleComplete(g) == [g EXCEPT !.driverInstance = NoDriver]

\* A controller method called from the orchestrator: c2 is the controller
\* after it; handleComplete has run if the controller called onComplete.
Controller(g, c2) ==
  LET g2 == [g EXCEPT !.c = c2] IN
  IF CountIn(c2.fired, "onComplete") > CountIn(g.c.fired, "onComplete")
  THEN handleComplete(g2)
  ELSE g2

\* The value loadLessonPlan returns.
loadResult(plan) ==
  [success      |-> Len(validSteps(plan.steps)) > 0,
   validSteps   |-> Len(validSteps(plan.steps)),
   invalidSteps |-> invalidSteps(plan.steps)]

init(g) ==
  IF g.isInitialized THEN g
  ELSE GEmit([g EXCEPT !.isInitialized = TRUE], <<"onDriverInit">>)

loadLessonPlan(g, plan) ==
  LET g1    == init(g)
      valid == validSteps(plan.steps)
      validLessonPlan == [plan EXCEPT !.steps = valid]
      g2    == Controller([g1 EXCEPT !.guidePlan = validLessonPlan],
                          load(g1.c, validLessonPlan))
  IN [g2 EXCEPT !.c.ret = IF loadResult(plan).success THEN "true"
                          ELSE "false"]

G_start(g) ==
  IF g.guidePlan.id = 0 \/ Len(g.guidePlan.steps) = 0
  THEN [GEmit(g, <<"onError">>) EXCEPT !.c.ret = "false"]
  ELSE LET g1 == [g EXCEPT !.driverInstance =
                     drive(driver(Len(g.guidePlan.steps)), 0)]
           g2 == Controller(g1, start(g1.c))
       IN [g2 EXCEPT !.c.ret = "true"]

G_pause(g)  == Controller(g, pause(g.c))
G_resume(g) == Controller(g, resume(g.c))

G_stop(g) ==
  LET g1 == Controller(g, stop(g.c)) IN
  IF g1.driverInstance.active
  THEN [g1 EXCEPT !.driverInstance = NoDriver]
  ELSE g1

G_next_unguarded(g) ==
  IF g.driverInstance.active
  THEN LET g1 == [g EXCEPT !.driverInstance =
                     IF hasNextStep(@) THEN moveNext(@) ELSE @]
       IN Controller(g1, next(g1.c))
  ELSE [g EXCEPT !.c.ret = "false"]

G_next(g) ==
  IF g.driverInstance.active /\ hasNextStep(g.driverInstance)
  THEN LET g1 == [g EXCEPT !.driverInstance = moveNext(@)]
       IN Controller(g1, next(g1.c))
  ELSE [g EXCEPT !.c.ret = "false"]

G_previous(g) ==
  IF g.driverInstance.active /\ hasPreviousStep(g.driverInstance)
  THEN LET g1 == [g EXCEPT !.driverInstance = movePrevious(@)]
       IN Controller(g1, previous(g1.c))
  ELSE [g EXCEPT !.c.ret = "false"]

G_goToStep(g, index) ==
  IF ~g.driverInstance.active \/ g.guidePlan.id = 0
  THEN [g EXCEPT !.c.ret = "false"]
  ELSE IF index < 0 \/ index >= Len(g.guidePlan.steps)
  THEN [g EXCEPT !.c.ret = "false"]
  ELSE LET g1 == [g EXCEPT !.driverInstance = drive(@, index)]
       IN Controller(g1, goToStep(g1.c, index))

G_updateSettings(g, p) == Controller(g, updateSettings(g.c, p))

G_destroy(g) ==
  LET g1 == G_stop(g)
      g2 == Controller(g1, destroy(g1.c))
  IN GEmit([g2 EXCEPT !.guidePlan = NullPlan, !.isInitialized = FALSE],
           <<"onDriverDestroy">>)

\* The overlay's own buttons, as configured by createDriverConfig.
onCloseClick(g) == GEmit(G_stop(g), <<"onComplete">>)
onNextClick(g)  == [G_next(g) EXCEPT !.c.ret = "void"]
onPrevClick(g)  == [G_previous(g) EXCEPT !.c.ret = "void"]

\* The controller's timer callback, inside an orchestrator.
G_timerCallback(g) == Controller(g, timerCallback(g.c))

\* ----------------------------------------------------------- RateLimiter
\* A RateLimiter as its constructor leaves it, and the clock.  now is what
\* Date.now() returns (far past minInterval when the page runs), waiting
\* holds the expiry times of the delay() timers of the throttle() calls
\* that are suspended, one per call.  The rest is history: calls counts
\* the throttle() calls, started lists the times at which fn was called.
NewLimiter ==
  [lastCallTime |-> 0, now |-> MinInterval, waiting |-> EmptyBag,
   calls |-> 0, started |-> <<>>]

\* throttle(fn) from `this.lastCallTime = Date.now()` on.
callNow(l) ==
  [l EXCEPT !.lastCallTime = l.now, !.started = Append(@, l.now)]

\* throttle(fn) up to its await, or to its end when it does not wait.
throttle(l) ==
  LET timeSinceLastCall == l.now - l.lastCallTime
      l1 == [l EXCEPT !.calls = @ + 1]
  IN IF timeSinceLastCall < MinInterval
     THEN [l1 EXCEPT !.waiting =
             @ (+) SetToBag({l.now + (MinInterval - timeSinceLastCall)})]
     ELSE callNow(l1)

\* The delay() timer that expires at time w has fired: throttle goes on.
delayOver(l, w) == callNow([l EXCEPT !.waiting = @ (-) SetToBag({w})])

\* ------------------------------------------------------ content script
\* The content script's globals: guideSystem and ttsController say whether
\* each global is non-null.  The rest is history: guides and narrators
\* count the instances created and not destroyed, leftTimers and
\* leftOverlays count the timers still pending and the overlays still
\* shown of guides at the moment they were given up.
NoPage == [guideSystem |-> FALSE, ttsController |-> FALSE,
           guides |-> 0, narrators |-> 0, leftTimers |-> 0, leftOverlays |-> 0]

\* The guide g has its overlay shown and an auto-advance timer pending.
Busy(g) == g.driverInstance.active /\ g.c.timers # EmptyBag

\* createGuideSystem(settings, events)
NewGuide(s) ==
  [c |-> [lessonPlan |-> NullPlan, state |-> InitialState, settings |-> s,
          autoAdvanceTimer |-> "null", events |-> AllEvents,
          timers |-> EmptyBag, fired |-> <<>>, ret |-> "void"],
   driverInstance |-> NoDriver, guidePlan |-> NullPlan,
   isInitialized |-> FALSE]

\* The page after the guide g is given up (its global is overwritten or set
\* to null): what g still holds stays behind.
GivenUp(p, g, destroyed) ==
  [p EXCEPT !.guides = IF destroyed THEN @ - 1 ELSE @,
            !.leftTimers = @ + BagCardinality(g.c.timers),
            !.leftOverlays = IF g.driverInstance.active THEN @ + 1 ELSE @]

\* The GuideSystem that startGuide creates, loads and, when the plan has a
\* valid step, starts.
Started(plan, s) ==
  LET g1 == loadLessonPlan(NewGuide(s), plan) IN
  IF g1.c.ret = "true" THEN G_start(g1) ELSE g1

startGuide_keepsOld(w, plan, s) ==
  LET p1 == IF w.page.guideSystem THEN GivenUp(w.page, w.guide, FALSE)
            ELSE w.page
  IN [w EXCEPT !.guide = Started(plan, s),
               !.page = [p1 EXCEPT !.guideSystem = TRUE, !.guides = @ + 1]]

\* startGuide(payload); w is the page with its guide and narration
\* controller, [guide, tts, page].
startGuide(w, plan, s) ==
  LET p1 == IF w.page.guideSystem
            THEN GivenUp(w.page, G_destroy(w.guide), TRUE)
            ELSE w.page
  IN [w EXCEPT !.guide = Started(plan, s),
               !.page = [p1 EXCEPT !.guideSystem = TRUE, !.guides = @ + 1]]

\* cleanup()
cleanup(w) ==
  LET p1 == IF w.page.guideSystem
            THEN [GivenUp(w.page, G_destroy(w.guide), TRUE)
                  EXCEPT !.guideSystem = FALSE]
            ELSE w.page
      p2 == IF w.page.ttsController
            THEN [p1 EXCEPT !.ttsController = FALSE, !.narrators = @ - 1]
            ELSE p1
  IN [guide |-> IF w.page.guideSystem THEN G_destroy(w.guide) ELSE w.guide,
      tts   |-> IF w.page.ttsController THEN T_destroy(w.tts) ELSE w.tts,
      page  |-> p2]

\* initTTS(settings)
initTTS(w, enabled) ==
  LET p1 == IF w.page.ttsController
            THEN [w.page EXCEPT !.narrators = @ - 1] ELSE w.page
  IN [w EXCEPT !.tts = NewTTS(enabled),
               !.page = [p1 EXCEPT !.ttsController = TRUE,
                                   !.narrators = @ + 1]]

toggleTTS(w, enabled) ==
  IF ~w.page.ttsController THEN initTTS(w, enabled)
  ELSE [w EXCEPT !.tts = T_setEnabled(w.tts, enabled)]

\* speakText(payload) up to its await
speakText(w) ==
  LET w1 == IF ~w.page.ttsController THEN initTTS(w, TRUE) ELSE w IN
  [w1 EXCEPT !.tts = T_speak([w1.tts EXCEPT !.issued = @ + 1],
                             w1.tts.issued + 1, FALSE)]

stopTTS(w) ==
  IF w.page.ttsController THEN [w EXCEPT !.tts = T_stop(w.tts)] ELSE w

\* getTTSVoices() up to its await
getTTSVoices(w) ==
  IF ~w.page.ttsController THEN initTTS(w, FALSE) ELSE w

\* ------------------------------------------------------------- actions
\* One call of a controller method (or one timer callback): the controller
\* after it is c.
Becomes(name, c) ==
  /\ BagCardinality(c.timers) <= MaxTimers
  /\ lessonPlan' = c.lessonPlan
  /\ state' = c.state
  /\ settings' = c.settings
  /\ autoAdvanceTimer' = c.autoAdvanceTimer
  /\ events' = c.events
  /\ timers' = c.timers
  /\ fired' = c.fired
  /\ ret' = c.ret
  /\ op' = name
  /\ run' = RunAfter(name, c)
  /\ UNCHANGED otherVars

Load(plan)   == Becomes("load", load(Ctl, plan)) /\ UNCHANGED guideVars
Start        == Becomes("start", start(Ctl)) /\ UNCHANGED guideVars
Pause        == Becomes("pause", pause(Ctl)) /\ UNCHANGED guideVars
Resume       == Becomes("resume", resume(Ctl)) /\ UNCHANGED guideVars
Stop         == Becomes("stop", stop(Ctl)) /\ UNCHANGED guideVars
Next_        == Becomes("next", next(Ctl)) /\ UNCHANGED guideVars
Previous     == Becomes("previous", previous(Ctl)) /\ UNCHANGED guideVars
GoToStep(i)  == Becomes("goToStep", goToStep(Ctl, i)) /\ UNCHANGED guideVars
UpdateSettings(p) ==
  Becomes("updateSettings", updateSettings(Ctl, p)) /\ UNCHANGED guideVars
Destroy      == Becomes("destroy", destroy(Ctl)) /\ UNCHANGED guideVars

\* A pending timer whose delay has elapsed fires: it leaves the timer heap
\* (the handle field keeps its id) and its callback runs.
Expire(c, t) == [c EXCEPT !.timers = @ (-) SetToBag({t})]

TimerFires(t) ==
  /\ t.due = 0
  /\ Becomes("timer", timerCallback(Expire(Ctl, t)))
  /\ UNCHANGED guideVars

\* One clock tick passes with no callback running.
Elapse(T) ==
  LET after == {[x EXCEPT !.due = IF @ > 0 THEN @ - 1 ELSE 0] : x \in DOMAIN T}
  IN [t \in after |->
        IF t.due = 0
        THEN CopiesIn(t, T) + CopiesIn([t EXCEPT !.due = 1], T)
        ELSE CopiesIn([t EXCEPT !.due = @ + 1], T)]

Tick ==
  /\ \E t \in DOMAIN timers : t.due > 0
  /\ timers' = Elapse(timers)
  /\ op' = "tick"
  /\ fired' = <<>>
  /\ ret' = "void"
  /\ UNCHANGED <<lessonPlan, state, settings, autoAdvanceTimer, events, run>>
  /\ UNCHANGED guideVars
  /\ UNCHANGED otherVars

GoToArgs == (0 - 1)..(MaxSteps + 1)

\* The controller and the orchestrator as their constructors leave them.
Constructed ==
  /\ lessonPlan = NullPlan
  /\ state = InitialState
  /\ settings \in [autoAdvance : BOOLEAN, autoAdvanceDelay : 0..MaxDelay]
  /\ autoAdvanceTimer = "null"
  /\ events = AllEvents
  /\ timers = EmptyBag
  /\ fired = <<>>
  /\ ret = "void"
  /\ op = "new"
  /\ run = RunOff
  /\ driverInstance = NoDriver
  /\ guidePlan = NullPlan
  /\ isInitialized = FALSE

Init ==
  /\ Constructed
  /\ validator = NotValidated
  /\ tts = NewTTS(FALSE)
  /\ page = NoPage
  /\ limiter = NewLimiter

Next ==
  \/ \E plan \in Plans : Load(plan)
  \/ Start
  \/ Pause
  \/ Resume
  \/ Stop
  \/ Next_
  \/ Previous
  \/ \E i \in GoToArgs : GoToStep(i)
  \/ \E p \in Partials : UpdateSettings(p)
  \/ Destroy
  \/ \E t \in DOMAIN timers : TimerFires(t)
  \/ Tick

Spec == Init /\ [][Next]_vars

\* ------------------------------------------- auto-advance left to run
\* A controller built with autoAdvance enabled is loaded with a plan of at
\* least one step and started; from then on the timer drives it, and the
\* user may call next() and start(), and nothing else.  The clock goes on
\* and a timer that is due fires: setTimeout callbacks are run by the event
\* loop.
AutoLoad(plan) == op = "new" /\ Len(plan.steps) >= 1 /\ Load(plan)
AutoStart      == op # "new" /\ Start
AutoAdvance(t) == op \notin {"new", "load"} /\ TimerFires(t)
AutoTick       == op \notin {"new", "load"} /\ Tick
ManualNext     == op \notin {"new", "load"} /\ Next_

AutoInit == Init /\ settings.autoAdvance

AutoNext ==
  \/ \E plan \in Plans : AutoLoad(plan)
  \/ AutoStart
  \/ \E t \in DOMAIN timers : AutoAdvance(t)
  \/ AutoTick
  \/ ManualNext

AutoSpec ==
  /\ AutoInit
  /\ [][AutoNext]_vars
  /\ WF_vars(AutoTick)
  /\ WF_vars(\E t \in DOMAIN timers : AutoAdvance(t))

\* ------------------------------------------- actions of the orchestrator
\* Selectors of the steps handed to GuideSystem.loadLessonPlan: one that
\* resolves in the page and one that does not.
StepSelectors == {".found", ".gone"}

\* Raw plans of 0..MaxSteps steps with at most one unresolvable selector.
RawPlans ==
  UNION {{[id |-> n + 1, steps |-> [i \in 1..n |-> Step(i, f[i])]] :
            f \in {h \in [1..n -> StepSelectors] :
                     Cardinality({i \in 1..n : h[i] = ".gone"}) <= 1}} :
         n \in 0..MaxSteps}

\* One call of an orchestrator method, overlay button or timer callback: the
\* orchestrator after it is g; track is the call as the history sees it.
GBecomes(name, track, g) ==
  /\ BagCardinality(g.c.timers) <= MaxTimers
  /\ lessonPlan' = g.c.lessonPlan
  /\ state' = g.c.state
  /\ settings' = g.c.settings
  /\ autoAdvanceTimer' = g.c.autoAdvanceTimer
  /\ events' = g.c.events
  /\ timers' = g.c.timers
  /\ fired' = g.c.fired
  /\ ret' = g.c.ret
  /\ op' = name
  /\ run' = RunAfter(track, g.c)
  /\ driverInstance' = g.driverInstance
  /\ guidePlan' = g.guidePlan
  /\ isInitialized' = g.isInitialized
  /\ UNCHANGED otherVars

GLoadLessonPlan(plan) ==
  GBecomes("loadLessonPlan", "load", loadLessonPlan(Guide, plan))
GStart ==
  GBecomes("start",
           IF G_start(Guide).c.ret = "true" THEN "start" ELSE "other",
           G_start(Guide))
GPause     == GBecomes("pause", "pause", G_pause(Guide))
GResume    == GBecomes("resume", "resume", G_resume(Guide))
GStop      == GBecomes("stop", "stop", G_stop(Guide))
GNext      == GBecomes("next", "next", G_next(Guide))
GPrevious  == GBecomes("previous", "previous", G_previous(Guide))
GGoToStep(i) == GBecomes("goToStep", "goToStep", G_goToStep(Guide, i))
GUpdateSettings(p) ==
  GBecomes("updateSettings", "updateSettings", G_updateSettings(Guide, p))
GDestroy   == GBecomes("destroy", "destroy", G_destroy(Guide))

\* The user clicks a button of the overlay's popover (shown while the
\* overlay is active).
CloseClick ==
  driverInstance.active /\ GBecomes("closeClick", "other", onCloseClick(Guide))
NextClick ==
  driverInstance.active /\ GBecomes("nextClick", "other", onNextClick(Guide))
PrevClick ==
  driverInstance.active /\ GBecomes("prevClick", "other", onPrevClick(Guide))

GTimerFires(t) ==
  /\ t.due = 0
  /\ GBecomes("timer", "timer",
              G_timerCallback([Guide EXCEPT !.c = Expire(Ctl, t)]))

\* The orchestrator is explored with autoAdvanceDelay = 0: a pending timer
\* may fire at any later moment, which covers every positive delay.
GuidePartials == {p \in Partials : ~p.hasDelay}

GuideInit ==
  /\ Init
  /\ settings.autoAdvanceDelay = 0

GuideNext ==
  \/ \E plan \in RawPlans : GLoadLessonPlan(plan)
  \/ GStart
  \/ GPause
  \/ GResume
  \/ GStop
  \/ GNext
  \/ GPrevious
  \/ \E i \in GoToArgs : GGoToStep(i)
  \/ \E p \in GuidePartials : GUpdateSettings(p)
  \/ GDestroy
  \/ CloseClick
  \/ NextClick
  \/ PrevClick
  \/ \E t \in DOMAIN timers : GTimerFires(t)

GuideSpec == GuideInit /\ [][GuideNext]_vars

\* ------------------------------------- the orchestrator, overlay failing
\* The same methods when the overlay engine call they make throws: nothing
\* in GuideSystem catches, so the method ends there and the exception goes
\* to the caller (ret is "throws").
G_start_throws(g) ==
  [g EXCEPT !.driverInstance = driver(Len(g.guidePlan.steps)),
            !.c.ret = "throws"]

G_next_throws(g)     == [g EXCEPT !.c.ret = "throws"]
G_previous_throws(g) == [g EXCEPT !.c.ret = "throws"]
G_goToStep_throws(g) == [g EXCEPT !.c.ret = "throws"]
G_stop_throws(g) ==
  [Controller(g, stop(g.c)) EXCEPT !.c.ret = "throws"]

\* drive() throws in start(), after the instance was created and stored.
GStartThrows ==
  /\ guidePlan.id # 0 /\ Len(guidePlan.steps) > 0
  /\ GBecomes("start", "other", G_start_throws(Guide))
\* moveNext() throws.
GNextThrows ==
  /\ driverInstance.active /\ hasNextStep(driverInstance)
  /\ GBecomes("next", "other", G_next_throws(Guide))
\* movePrevious() throws.
GPreviousThrows ==
  /\ driverInstance.active /\ hasPreviousStep(driverInstance)
  /\ GBecomes("previous", "other", G_previous_throws(Guide))
\* drive(index) throws in goToStep(index).
GGoToStepThrows(i) ==
  /\ driverInstance.active /\ guidePlan.id # 0
  /\ IndexInRange(i, Len(guidePlan.steps))
  /\ GBecomes("goToStep", "other", G_goToStep_throws(Guide))
\* destroy() of the overlay throws in stop(), after the controller stopped.
GStopThrows ==
  /\ driverInstance.active
  /\ GBecomes("stop", "other", G_stop_throws(Guide))

FaultyNext ==
  \/ GuideNext
  \/ GStartThrows
  \/ GNextThrows
  \/ GPreviousThrows
  \/ \E i \in GoToArgs : GGoToStepThrows(i)
  \/ GStopThrows

FaultySpec == GuideInit /\ [][FaultyNext]_vars

\* ------------------------------------------------ the validators alone
\* Step lists of 0..MaxSteps steps over every kind of target.
StepLists ==
  UNION {{[i \in 1..n |-> Step(i, f[i])] : f \in [1..n -> StepTargets]} :
         n \in 0..MaxSteps}

ValidatorInit ==
  /\ Constructed
  /\ settings = [autoAdvance |-> FALSE, autoAdvanceDelay |-> 0]
  /\ tts = NewTTS(FALSE)
  /\ page = NoPage
  /\ limiter = NewLimiter
  /\ \E steps \in StepLists, sel \in Selectors :
       validator = [NotValidated EXCEPT !.steps = steps, !.selector = sel]

\* validateLessonSteps(steps) and validateSelector(selector) are called.
Validate ==
  /\ ~validator.called
  /\ validator' = [validator EXCEPT
                     !.called = TRUE,
                     !.result = validateLessonSteps(validator.steps),
                     !.accepted = validateSelector(validator.selector)]
  /\ op' = "validate"
  /\ UNCHANGED <<lessonPlan, state, settings, autoAdvanceTimer, events,
                 timers, fired, ret, run, guideVars, tts, page, limiter>>

ValidatorSpec == ValidatorInit /\ [][Validate]_vars

\* ------------------------------------------------ the narration queue
\* One step of a TTSController: the controller after it is t.
TBecomes(name, t) ==
  /\ tts' = t
  /\ op' = name
  /\ UNCHANGED <<lessonPlan, state, settings, autoAdvanceTimer, events,
                 timers, fired, ret, run, guideVars, validator, page,
                 limiter>>

Enqueue ==
  /\ tts.issued < MaxTexts
  /\ TBecomes("enqueue",
              T_enqueue([tts EXCEPT !.issued = @ + 1], tts.issued + 1))
Speak ==
  /\ tts.issued < MaxTexts
  /\ TBecomes("speak",
              [T_speak([tts EXCEPT !.issued = @ + 1], tts.issued + 1, FALSE)
               EXCEPT !.clean = FALSE])
TStop == TBecomes("stop", [T_stop(tts) EXCEPT !.clean = FALSE])
SetEnabled(enabled) ==
  TBecomes("setEnabled", [T_setEnabled(tts, enabled) EXCEPT !.clean = FALSE])
TDestroy == TBecomes("destroy", [T_destroy(tts) EXCEPT !.clean = FALSE])

\* A continuation of an await is due.  Once an utterance has been handed
\* to the engine the voice list is loaded, so these continuations are
\* microtasks and run before any event of the engine is delivered.
AwaitDue(t) ==
  \E i \in DOMAIN t.calls : t.calls[i].at \in {"voices", "returned"}

\* The oldest call waiting for the voice list goes on.
VoicesLoaded(i) ==
  /\ tts.calls[i].at = "voices"
  /\ \A k \in 1..(i - 1) : tts.calls[k].at # "voices"
  /\ TBecomes("voices", voicesLoaded(tts, i))
\* The await of a speak() that returned at once goes on.
Returned(i) ==
  /\ tts.calls[i].at = "returned"
  /\ TBecomes("returned", settled(tts, i))
\* The utterance at the head of the speechSynthesis queue ends or fails.
PlaybackEnds(i) ==
  /\ ~AwaitDue(tts)
  /\ tts.calls[i].at = "engine"
  /\ tts.calls[i].text = Head(tts.engine)
  /\ TBecomes("end", playbackEnds(tts, i))
PlaybackFails(i) ==
  /\ ~AwaitDue(tts)
  /\ tts.calls[i].at = "engine"
  /\ tts.calls[i].text = Head(tts.engine)
  /\ TBecomes("error", playbackFails(tts, i))
\* The error event of a cancelled utterance arrives; it resolves the call.
CancelDelivered(i) ==
  /\ ~AwaitDue(tts)
  /\ tts.calls[i].at = "cancelled"
  /\ TBecomes("cancelled", settled(tts, i))

TTSInit ==
  /\ Constructed
  /\ settings = [autoAdvance |-> FALSE, autoAdvanceDelay |-> 0]
  /\ validator = NotValidated
  /\ \E enabled \in BOOLEAN : tts = NewTTS(enabled)
  /\ page = NoPage
  /\ limiter = NewLimiter

TTSNext ==
  \/ Enqueue
  \/ Speak
  \/ TStop
  \/ \E enabled \in BOOLEAN : SetEnabled(enabled)
  \/ TDestroy
  \/ \E i \in DOMAIN tts.calls :
       \/ VoicesLoaded(i)
       \/ Returned(i)
       \/ PlaybackEnds(i)
       \/ PlaybackFails(i)
       \/ CancelDelivered(i)

TTSSpec == TTSInit /\ [][TTSNext]_vars

\* The same controller when the environment keeps going: the voice list
\* loads, an await that has nothing to wait for goes on, every playback
\* ends or fails, and a cancelled utterance gets its error event.
TTSFairness ==
  /\ WF_vars(\E i \in DOMAIN tts.calls : VoicesLoaded(i))
  /\ WF_vars(\E i \in DOMAIN tts.calls : Returned(i))
  /\ WF_vars(\E i \in DOMAIN tts.calls : PlaybackEnds(i) \/ PlaybackFails(i))
  /\ WF_vars(\E i \in DOMAIN tts.calls : CancelDelivered(i))

TTSLiveSpec == TTSInit /\ [][TTSNext]_vars /\ TTSFairness

\* ------------------------------------------- the command channel
World == [guide |-> Guide, tts |-> tts, page |-> page]

\* One command handled by the content script: the page after it is w.
PBecomes(name, w) ==
  /\ BagCardinality(w.guide.c.timers) <= MaxTimers
  /\ lessonPlan' = w.guide.c.lessonPlan
  /\ state' = w.guide.c.state
  /\ settings' = w.guide.c.settings
  /\ autoAdvanceTimer' = w.guide.c.autoAdvanceTimer
  /\ events' = w.guide.c.events
  /\ timers' = w.guide.c.timers
  /\ fired' = w.guide.c.fired
  /\ ret' = w.guide.c.ret
  /\ op' = name
  /\ run' = RunOff
  /\ driverInstance' = w.guide.driverInstance
  /\ guidePlan' = w.guide.guidePlan
  /\ isInitialized' = w.guide.isInitialized
  /\ tts' = w.tts
  /\ page' = w.page
  /\ UNCHANGED <<validator, limiter>>

\* settings of a START_GUIDE payload merged over defaultGuideSettings
GuideSettings == [autoAdvance : BOOLEAN, autoAdvanceDelay : {0}]

\* lesson plans of START_GUIDE payloads: 0..MaxSteps steps that resolve
Payloads ==
  {[id |-> n + 1, steps |-> [i \in 1..n |-> Step(i, ".found")]] :
     n \in 0..MaxSteps}

\* START_GUIDE; the history tells apart the one that finds a guide with
\* its overlay shown and a timer pending.
StartGuide(plan, s) ==
  PBecomes(IF page.guideSystem /\ Busy(Guide) THEN "START_GUIDE over a guide"
           ELSE "START_GUIDE",
           startGuide(World, plan, s))
StopGuide    == page.guideSystem /\ GStop
PauseGuide   == page.guideSystem /\ GPause
ResumeGuide  == page.guideSystem /\ GResume
NextStep     == page.guideSystem /\ GNext
PrevStep     == page.guideSystem /\ GPrevious
GoToStepCommand(i) == page.guideSystem /\ GGoToStep(i)
Cleanup      == PBecomes("cleanup", cleanup(World))
ToggleTTS(enabled) == PBecomes("TOGGLE_TTS", toggleTTS(World, enabled))
SpeakText ==
  /\ page.ttsController => tts.issued < MaxSpoken
  /\ PBecomes("SPEAK_TEXT", speakText(World))
StopTTS      == PBecomes("STOP_TTS", stopTTS(World))
GetTTSVoices == PBecomes("GET_TTS_VOICES", getTTSVoices(World))

ContentInit ==
  /\ Init
  /\ settings = [autoAdvance |-> FALSE, autoAdvanceDelay |-> 0]

ContentNext ==
  \/ \E plan \in Payloads, s \in GuideSettings : StartGuide(plan, s)
  \/ StopGuide
  \/ PauseGuide
  \/ ResumeGuide
  \/ NextStep
  \/ PrevStep
  \/ \E i \in GoToArgs : GoToStepCommand(i)
  \/ CloseClick
  \/ NextClick
  \/ PrevClick
  \/ \E t \in DOMAIN timers : GTimerFires(t)
  \/ Cleanup
  \/ \E enabled \in BOOLEAN : ToggleTTS(enabled)
  \/ SpeakText
  \/ StopTTS
  \/ GetTTSVoices
  \/ \E i \in DOMAIN tts.calls :
       \/ VoicesLoaded(i)
       \/ PlaybackEnds(i)
       \/ PlaybackFails(i)
       \/ CancelDelivered(i)

ContentSpec == ContentInit /\ [][ContentNext]_vars

\* --------------------------------------------------- the rate limiter
LBecomes(name, l) ==
  /\ limiter' = l
  /\ op' = name
  /\ UNCHANGED <<lessonPlan, state, settings, autoAdvanceTimer, events,
                 timers, fired, ret, run, guideVars, validator, tts, page>>

Throttle == limiter.calls < MaxCalls /\ LBecomes("throttle", throttle(limiter))

\* A delay() timer fires at its expiry time or later.
DelayOver(w) == w <= limiter.now /\ LBecomes("delayOver", delayOver(limiter, w))

ClockTick ==
  /\ limiter.now < MaxClock
  /\ LBecomes("clock", [limiter EXCEPT !.now = @ + 1])

LimiterInit ==
  /\ Constructed
  /\ settings = [autoAdvance |-> FALSE, autoAdvanceDelay |-> 0]
  /\ validator = NotValidated
  /\ tts = NewTTS(FALSE)
  /\ page = NoPage
  /\ limiter = NewLimiter

LimiterNext ==
  \/ Throttle
  \/ \E w \in DOMAIN limiter.waiting : DelayOver(w)
  \/ ClockTick

LimiterSpec == LimiterInit /\ [][LimiterNext]_vars

\* ================================================================ claims
N == Len(lessonPlan.steps)

\* The pending timer whose id the controller holds, as the bag arming it
\* with the configured delay leaves.
FullDelayTimer == SetToBag({[held |-> TRUE, due |-> settings.autoAdvanceDelay]})

\* C1: in every reachable controller state, isCompleted implies not isPlaying.
C1_CompletedNotPlaying == state.isCompleted => ~state.isPlaying

C1_Witness == state.isCompleted /\ op \in {"next", "timer"}

\* C2: with a plan of N >= 1 steps loaded, 0 <= currentStepIndex < N.
C2_IndexInRange ==
  N >= 1 => (0 <= state.currentStepIndex /\ state.currentStepIndex < N)

C2_Witness ==
  /\ N >= 2
  /\ op = "goToStep"
  /\ ret = "true"
  /\ state.currentStepIndex = N - 1

\* C3: at most one auto-advance timer is pending at any time.
C3_AtMostOneTimer == BagCardinality(timers) <= 1

\* C4: while the orchestrator's overlay is active, the overlay's active step
\* index equals the controller's currentStepIndex.
C4_OverlayFollowsController ==
  driverInstance.active => driverInstance.activeIndex = state.currentStepIndex

\* C5: after a fresh start() with autoAdvance disabled on a plan of N >= 1
\* steps, N calls of next() end completed, with onComplete fired once,
\* onStepChange fired N times with indices 0..N-1 in order, the first N-1
\* calls returning true and the N-th false; before the N-th call the
\* controller is not completed.
C5_NextNTimes ==
  run.on =>
    IF Len(run.rets) = N
    THEN /\ state.isCompleted
         /\ run.completes = 1
         /\ run.changes = [i \in 1..N |-> i - 1]
         /\ run.rets = [i \in 1..N |-> IF i < N THEN "true" ELSE "false"]
    ELSE /\ ~state.isCompleted
         /\ run.completes = 0
         /\ run.rets = [i \in 1..Len(run.rets) |-> "true"]
         /\ run.changes = [i \in 1..(Len(run.rets) + 1) |-> i - 1]

C5_Witness ==
  /\ run.on
  /\ N = 3
  /\ Len(run.rets) = 3
  /\ op = "next"
  /\ state.isCompleted

\* C6: through the orchestrator, after start() with autoAdvance disabled on
\* a plan of N >= 1 valid steps, N calls of the orchestrator's next() end
\* with isCompleted = true and exactly one onComplete delivered.
C6_GuideNextNTimes ==
  (run.on /\ Len(run.rets) = N) => (state.isCompleted /\ run.completes = 1)

C8_AutoAdvance ==
  [][ /\ (op' = "start" /\ lessonPlan.id # 0 /\ settings.autoAdvance) =>
           Held(timers') = FullDelayTimer'
      /\ (op' = "timer" /\ state.isPlaying /\ ~state.isPaused) =>
           /\ \E t \in DOMAIN timers :
                /\ t.due = 0
                /\ state' = next(Expire(Ctl, t)).state
                /\ timers' = next(Expire(Ctl, t)).timers
                /\ fired' = next(Expire(Ctl, t)).fired
           /\ (state.currentStepIndex = 0 /\ N >= 2 /\ ~state.isCompleted
                 /\ "onStepChange" \in events) =>
                /\ state' = [state EXCEPT !.currentStepIndex = 1]
                /\ fired' = << <<"onStepChange", 1, lessonPlan.steps[2]>> >> ]_vars

C8_Witness ==
  /\ op = "timer"
  /\ state.isPlaying
  /\ state.currentStepIndex = 1
  /\ fired = << <<"onStepChange", 1, lessonPlan.steps[2]>> >>
  /\ timers = FullDelayTimer

\* C9: start() on a loaded plan (N >= 1) leaves isPlaying = true, isPaused =
\* false, isCompleted = false and currentStepIndex = 0 whatever the state
\* before, and fires onStart and then onStepChange(0, steps[0]).
C9_Start ==
  (op = "start" /\ N >= 1) =>
    /\ state = [currentStepIndex |-> 0, isPlaying |-> TRUE,
                isPaused |-> FALSE, isCompleted |-> FALSE]
    /\ {"onStart", "onStepChange"} \subseteq events =>
         fired = << <<"onStart">>, <<"onStepChange", 0, lessonPlan.steps[1]>> >>

C9_Witness ==
  /\ op = "start"
  /\ N = MaxSteps
  /\ fired = << <<"onStart">>, <<"onStepChange", 0, lessonPlan.steps[1]>> >>

\* C10: start() with no plan loaded, or with a loaded plan of zero steps,
\* reports through onError only, arms no timer and leaves the state as it
\* was.
C10_StartFailsSafely ==
  [][ (op' = "start" /\ N = 0 /\ "onError" \in events) =>
        /\ fired' = << <<"onError">> >>
        /\ state' = state
        /\ timers' = timers ]_vars

\* What one callback leaves in fired: itself if subscribed, nothing if not.
Once(name) == IF name \in events THEN << <<name>> >> ELSE <<>>

\* C11: load(plan) in any state replaces the plan, resets the state, leaves
\* no timer pending and fires nothing; getCurrentStep() is then the plan's
\* first step and getTotalSteps() its step count.
C11_Load ==
  op = "load" =>
    /\ lessonPlan \in Plans
    /\ state = InitialState
    /\ timers = EmptyBag
    /\ fired = <<>>
    /\ getTotalSteps(Ctl) = Len(lessonPlan.steps)
    /\ getCurrentStep(Ctl) =
         IF N >= 1 THEN lessonPlan.steps[1] ELSE NoStep

\* C12: pause() acts only when isPlaying and not isPaused (isPaused becomes
\* true, the held timer is cancelled, onPause fires once); resume() acts
\* only when isPlaying and isPaused (isPaused becomes false, onResume fires
\* once); in every other state each changes no state field, fires nothing
\* and arms or cancels no timer.
C12_PauseResumeFrame ==
  [][ /\ (op' = "pause" /\ state.isPlaying /\ ~state.isPaused) =>
           /\ state' = [state EXCEPT !.isPaused = TRUE]
           /\ Held(timers') = EmptyBag
           /\ Orphans(timers') = Orphans(timers)
           /\ fired' = Once("onPause")
      /\ (op' = "pause" /\ ~(state.isPlaying /\ ~state.isPaused)) =>
           /\ state' = state
           /\ timers' = timers
           /\ autoAdvanceTimer' = autoAdvanceTimer
           /\ fired' = <<>>
      /\ (op' = "resume" /\ state.isPlaying /\ state.isPaused) =>
           /\ state' = [state EXCEPT !.isPaused = FALSE]
           /\ Orphans(timers') = Orphans(timers)
           /\ fired' = Once("onResume")
      /\ (op' = "resume" /\ ~(state.isPlaying /\ state.isPaused)) =>
           /\ state' = state
           /\ timers' = timers
           /\ autoAdvanceTimer' = autoAdvanceTimer
           /\ fired' = <<>>
      /\ op' \in {"pause", "resume"} =>
           UNCHANGED <<lessonPlan, settings, events>> ]_vars

\* pause() has just taken effect while a timer was armed.
C12_Witness ==
  /\ op = "pause"
  /\ state.isPaused
  /\ fired = << <<"onPause">> >>
  /\ settings.autoAdvance
  /\ timers = EmptyBag

\* C13: next() at the last index of a loaded plan, not yet completed, sets
\* isCompleted, clears isPlaying, cancels the held timer, fires onComplete
\* once and returns false with the index unchanged; next() while
\* isCompleted returns false and changes and fires nothing; onComplete only
\* ever fires on a step from not completed to completed, and isCompleted is
\* only cleared by start, previous, goToStep or load.
C13_Completion ==
  [][ /\ (op' = "next" /\ lessonPlan.id # 0 /\ ~state.isCompleted
            /\ state.currentStepIndex + 1 >= N) =>
           /\ state' = [state EXCEPT !.isCompleted = TRUE,
                                     !.isPlaying = FALSE]
           /\ Held(timers') = EmptyBag
           /\ Orphans(timers') = Orphans(timers)
           /\ fired' = Once("onComplete")
           /\ ret' = "false"
      /\ (op' = "next" /\ state.isCompleted) =>
           /\ ret' = "false"
           /\ fired' = <<>>
           /\ state' = state
           /\ timers' = timers
      /\ CountIn(fired', "onComplete") > 0 =>
           /\ CountIn(fired', "onComplete") = 1
           /\ ~state.isCompleted
           /\ state'.isCompleted
      /\ (state.isCompleted /\ ~state'.isCompleted) =>
           op' \in {"start", "previous", "goToStep", "load"} ]_vars

C13_Witness ==
  /\ op = "next"
  /\ N = MaxSteps
  /\ state.currentStepIndex = N - 1
  /\ state.isCompleted
  /\ fired = << <<"onComplete">> >>
  /\ ret = "false"

\* C14: previous() at index 0, previous()/next()/goToStep() with no plan
\* loaded, and goToStep(i) with i < 0 or i >= N return false, fire nothing
\* and leave the state and the timers as they were.
C14_RejectedNavigation ==
  [][ ( \/ (op' = "previous"
              /\ (lessonPlan.id = 0 \/ state.currentStepIndex = 0))
        \/ (op' = "next" /\ lessonPlan.id = 0)
        \/ /\ op' = "goToStep"
           /\ \E i \in GoToArgs :
                /\ GoToStep(i)
                /\ (lessonPlan.id = 0 \/ i < 0 \/ i >= N) ) =>
        /\ ret' = "false"
        /\ fired' = <<>>
        /\ state' = state
        /\ timers' = timers
        /\ autoAdvanceTimer' = autoAdvanceTimer
        /\ lessonPlan' = lessonPlan ]_vars

\* goToStep was refused on a loaded plan (its argument was out of range)
\* while a timer was pending.
C14_Witness ==
  /\ op = "goToStep"
  /\ ret = "false"
  /\ N >= 1
  /\ state.isPlaying
  /\ timers # EmptyBag

\* C15: an updateSettings() naming autoAdvance or autoAdvanceDelay cancels
\* any pending timer and arms a new one exactly when the controller is
\* playing, not paused and autoAdvance is enabled; when it is not playing
\* or is paused, no timer is pending afterwards.
C15_UpdateSettingsRearm ==
  [][ \A p \in Partials :
        (UpdateSettings(p) /\ (p.hasAutoAdvance \/ p.hasDelay)) =>
          timers' = IF /\ state.isPlaying
                       /\ ~state.isPaused
                       /\ settings'.autoAdvance
                    THEN FullDelayTimer'
                    ELSE EmptyBag ]_vars

\* C16: destroy() in any state cancels the held timer, clears the plan
\* (getTotalSteps() is 0, getCurrentStep() is null) and the subscriptions,
\* and resets the state to its initial value.
C16_Destroy ==
  op = "destroy" =>
    /\ Held(timers) = EmptyBag
    /\ autoAdvanceTimer = "null"
    /\ lessonPlan = NullPlan
    /\ getTotalSteps(Ctl) = 0
    /\ getCurrentStep(Ctl) = NoStep
    /\ events = {}
    /\ state = InitialState

\* destroy() has run and no load() has followed it.
Destroyed == lessonPlan = NullPlan /\ events = {}

\* C17: between destroy() and the next load(), start, pause, resume, stop,
\* next, previous, goToStep and updateSettings change no state field, fire
\* nothing and leave no timer pending.
C17_NoOpAfterDestroy ==
  [][ ( /\ Destroyed
        /\ op' \in {"start", "pause", "resume", "stop", "next", "previous",
                    "goToStep", "updateSettings"} ) =>
        /\ state' = state
        /\ fired' = <<>>
        /\ timers' = EmptyBag ]_vars

\* C18: the orchestrator's stop() and destroy() are idempotent: after either
\* there is no overlay instance, no pending timer and isPlaying is false,
\* and a second call right after the first changes nothing further; stop()
\* on an orchestrator that was never started changes nothing either.
C18_StopDestroyIdempotent ==
  [][ /\ op' \in {"stop", "destroy"} =>
           /\ ~driverInstance'.active
           /\ ~state'.isPlaying
           /\ timers' = EmptyBag
      /\ (op' = "stop" /\ op \in {"stop", "new"}) =>
           /\ UNCHANGED <<lessonPlan, state, settings, autoAdvanceTimer,
                          events, timers, guideVars>>
           /\ fired' = <<>>
      /\ (op' = "destroy" /\ op = "destroy") =>
           UNCHANGED <<lessonPlan, state, settings, autoAdvanceTimer,
                       events, timers, guideVars>> ]_vars

\* C19: the orchestrator's next() (previous()) returns false without
\* calling the controller, leaving ControllerState, timers and overlay as
\* they were, when the overlay is absent or has no next (previous) step;
\* otherwise the overlay moves one step and the controller's next()
\* (previous()) runs, its return value being the orchestrator's.
C19_OverlayGatesNavigation ==
  [][ /\ (op' = "next"
            /\ ~(driverInstance.active /\ hasNextStep(driverInstance))) =>
           /\ ret' = "false"
           /\ fired' = <<>>
           /\ UNCHANGED <<state, timers, autoAdvanceTimer, driverInstance>>
      /\ (op' = "previous"
            /\ ~(driverInstance.active /\ hasPreviousStep(driverInstance))) =>
           /\ ret' = "false"
           /\ fired' = <<>>
           /\ UNCHANGED <<state, timers, autoAdvanceTimer, driverInstance>>
      /\ (op' = "next"
            /\ driverInstance.active /\ hasNextStep(driverInstance)) =>
           LET c2 == next(Ctl) IN
           /\ <<state', timers', fired', ret'>> =
                <<c2.state, c2.timers, c2.fired, c2.ret>>
           /\ driverInstance' =
                IF CountIn(c2.fired, "onComplete") > 0 THEN NoDriver
                ELSE [driverInstance EXCEPT !.activeIndex = @ + 1]
      /\ (op' = "previous"
            /\ driverInstance.active /\ hasPreviousStep(driverInstance)) =>
           LET c2 == previous(Ctl) IN
           /\ <<state', timers', fired', ret'>> =
                <<c2.state, c2.timers, c2.fired, c2.ret>>
           /\ driverInstance' =
                [driverInstance EXCEPT !.activeIndex = @ - 1] ]_vars

\* next() was refused at the overlay's last step while the controller was
\* playing and not completed.
C19_Witness ==
  /\ op = "next"
  /\ ret = "false"
  /\ driverInstance.active
  /\ ~hasNextStep(driverInstance)
  /\ state.isPlaying
  /\ ~state.isCompleted
  /\ state.currentStepIndex = N - 1

\* A step passes validation: it names no target, or its selector validates.
Passes(step) ==
  step.targetSelector = "" \/ validateSelector(step.targetSelector)

\* C20: loadLessonPlan, called in any state with any plan, loads into the
\* controller exactly the steps that pass validation, in their original
\* order; getTotalSteps() is their count, the result's validSteps is that
\* count and its success says the count is positive; no step that fails
\* validation is in the loaded plan, reported by onStepChange or returned
\* by getCurrentStep().
C20_OnlyValidStepsLoaded ==
  /\ \A raw \in RawPlans :
       LET g    == loadLessonPlan(Guide, raw)
           kept == SelectSeq(raw.steps, Passes)
       IN /\ g.c.lessonPlan.steps = kept
          /\ g.c.lessonPlan.id = raw.id
          /\ getTotalSteps(g.c) = Len(kept)
          /\ loadResult(raw).validSteps = Len(kept)
          /\ loadResult(raw).success = (Len(kept) > 0)
          /\ g.c.ret = IF Len(kept) > 0 THEN "true" ELSE "false"
  /\ \A i \in 1..Len(lessonPlan.steps) : Passes(lessonPlan.steps[i])
  /\ \A k \in 1..Len(fired) :
       fired[k][1] = "onStepChange" =>
         /\ Passes(fired[k][3])
         /\ fired[k][3] = lessonPlan.steps[fired[k][2] + 1]
  /\ getCurrentStep(Ctl) # NoStep => Passes(getCurrentStep(Ctl))

\* A plan of MaxSteps steps was loaded with its middle step dropped, and a
\* later step of it has been reported.
C20_Witness ==
  /\ N = MaxSteps - 1
  /\ lessonPlan.steps[2].id = MaxSteps
  /\ op = "next"
  /\ fired = << <<"onStepChange", 1, lessonPlan.steps[2]>> >>

\* C21: validateLessonSteps puts every step in exactly one of valid and
\* invalid; a step with no target is in valid, a step with a target is in
\* valid exactly if validateSelector accepts its target; valid and invalid
\* keep the input's order.
C21_Partition ==
  validator.called =>
    LET steps   == validator.steps
        valid   == validator.result.valid
        invalid == validator.result.invalid
        In(q, x) == \E k \in 1..Len(q) : q[k] = x
    IN /\ \A i \in 1..Len(steps) :
            /\ In(valid, steps[i]) # In(invalid, steps[i])
            /\ steps[i].targetSelector = "" => In(valid, steps[i])
            /\ steps[i].targetSelector # "" =>
                 (In(valid, steps[i]) <=>
                    validateSelector(steps[i].targetSelector))
       /\ Len(valid) + Len(invalid) = Len(steps)
       /\ \A j, k \in 1..Len(valid) : j < k => valid[j].id < valid[k].id
       /\ \A j, k \in 1..Len(invalid) : j < k => invalid[j].id < invalid[k].id

\* A list of MaxSteps steps was split into a valid step without target, a
\* valid step with one, and an invalid step.
C21_Witness ==
  /\ validator.called
  /\ Len(validator.steps) = MaxSteps
  /\ Len(validator.result.invalid) = 1
  /\ \E j, k \in 1..Len(validator.result.valid) :
       /\ validator.result.valid[j].targetSelector = ""
       /\ validator.result.valid[k].targetSelector = ".found"

\* What the selector is, beside what the document resolves it to.
TooLong(sel)      == sel = ".long"
TooManyParts(sel) == sel = ".deep"
Denylisted(sel)   == sel = ":has"
Matches(sel) ==
  CASE sel = ".many" -> 2
    [] sel \in {".found", ".long", ".deep", ":has"} -> 1
    [] OTHER -> 0

\* C22: validateSelector accepts a reference exactly if it is non-empty,
\* within the length and part-count ceilings, not denylisted, and resolves
\* to exactly one element; over-long, over-complex and denylisted
\* references are rejected whatever they resolve to.
C22_ValidateSelector ==
  validator.called =>
    LET sel == validator.selector IN
    validator.accepted <=>
      /\ sel # ""
      /\ ~TooLong(sel)
      /\ ~TooManyParts(sel)
      /\ ~Denylisted(sel)
      /\ Matches(sel) = 1

\* C23: no exception of the overlay engine leaves start, next, previous,
\* goToStep or stop of the orchestrator, and a start() that got as far as
\* creating the overlay instance has started the controller.
C23_EngineFaultsContained ==
  /\ ret # "throws"
  /\ (op = "start" /\ ret # "false" /\ driverInstance.active) =>
       state.isPlaying

\* C24: while only enqueue() is called, the texts reach the speech engine
\* in the order they were enqueued, and never two at once: whenever one is
\* in flight no other call is, so an item is handed over only after the
\* playback of the one before it has ended or failed, and none is cut off.
C24_EnqueueInOrder ==
  tts.clean =>
    /\ Len(tts.handed) <= Len(tts.enqueued)
    /\ \A k \in DOMAIN tts.handed : tts.handed[k] = tts.enqueued[k]
    /\ Len(tts.calls) <= 1
    /\ Len(tts.engine) <= 1
    /\ \A i \in DOMAIN tts.calls : tts.calls[i].at \in {"voices", "engine"}
    /\ Range(tts.enqueued) =
         Range(tts.handed) \cup Range(tts.queue)
           \cup {tts.calls[i].text : i \in DOMAIN tts.calls}

C24_Witness ==
  /\ tts.clean
  /\ Len(tts.handed) = MaxTexts
  /\ tts.failed # {}
  /\ tts.engine # <<>>

\* C25: while only enqueue() is called, a playback failure does not stop
\* the drain loop: the next queued item is taken next, and when the queue
\* is empty isProcessing returns to false; nothing stays queued with no
\* call in flight.
C25_FailureSwallowed ==
  /\ [][(tts.clean /\ tts'.clean /\ op' = "error") =>
          IF Len(tts.queue) > 0
          THEN /\ tts'.calls = <<Call(Head(tts.queue), "voices", TRUE)>>
               /\ tts'.queue = Tail(tts.queue)
               /\ tts'.isProcessing
          ELSE /\ tts'.calls = <<>>
               /\ ~tts'.isProcessing]_vars
  /\ [](tts.clean =>
          /\ (tts.calls = <<>> => tts.queue = <<>>)
          /\ tts.isProcessing = (tts.calls # <<>>))

C25_Witness ==
  /\ tts.clean
  /\ op = "error"
  /\ tts.failed = {1}
  /\ tts.calls = <<Call(2, "voices", TRUE)>>
  /\ tts.queue = <<3>>

\* A speak() called from outside the drain loop is waiting for the voice
\* list or has its utterance in the speech engine.
DirectLive(t) ==
  \E i \in DOMAIN t.calls :
    ~t.calls[i].loop /\ t.calls[i].at \in {"voices", "engine"}

Continuations == {"voices", "returned", "end", "error", "cancelled"}

\* C26: speak(text) cancels what the engine is playing before its own
\* utterance starts, and leaves the backlog alone: while the immediate
\* utterance is pending or playing, no continuation that does not belong
\* to it takes an item from the queue or cuts the immediate utterance off.
C26_SpeakKeepsBacklog ==
  [][/\ (op' = "speak" /\ tts.enabled /\ tts.provider) =>
          /\ tts'.engine = <<>>
          /\ tts'.queue = tts.queue
     /\ (DirectLive(tts) /\ op' \in Continuations) =>
          /\ tts'.queue = tts.queue
          /\ \A i \in DOMAIN tts.calls, k \in DOMAIN tts'.calls :
               (/\ ~tts.calls[i].loop
                /\ tts.calls[i].at \in {"voices", "engine"}
                /\ tts'.calls[k].text = tts.calls[i].text)
               => tts'.calls[k].at # "cancelled"]_vars

\* C27: stop() empties the queue and the engine and clears isProcessing,
\* also when idle, and no text enqueued before a stop() is handed to the
\* speech engine after that stop() returned.
C27_StopDiscards ==
  [][/\ op' = "stop" =>
          /\ tts'.queue = <<>>
          /\ tts'.engine = <<>>
          /\ ~tts'.isProcessing
     /\ \A k \in DOMAIN tts'.handed :
          k > Len(tts.handed) => tts'.handed[k] \notin tts.stale]_vars

\* C28: setEnabled(false) empties the queue and the engine, and while
\* narration stays disabled the queue stays empty and nothing is handed
\* to the speech engine.
C28_DisabledIsSilent ==
  [][/\ (op' = "setEnabled" /\ ~tts'.enabled) =>
          /\ tts'.queue = <<>>
          /\ tts'.engine = <<>>
     /\ (~tts.enabled /\ ~tts'.enabled) =>
          /\ tts'.queue = <<>>
          /\ tts'.handed = tts.handed]_vars

\* C29: through the content script's commands at most one guide is live,
\* every guide given up was destroyed first and left no overlay and no
\* pending timer behind, and at most one narration controller is live.
C29_OneGuideOneNarrator ==
  /\ page.guides = (IF page.guideSystem THEN 1 ELSE 0)
  /\ page.leftTimers = 0
  /\ page.leftOverlays = 0
  /\ page.narrators = (IF page.ttsController THEN 1 ELSE 0)
  /\ ~page.guideSystem => (timers = EmptyBag /\ ~driverInstance.active)

C29_Witness ==
  /\ op = "START_GUIDE over a guide"
  /\ page.guides = 1
  /\ page.narrators = 1
  /\ Busy(Guide)

\* C30: a next(), previous() or goToStep() that succeeds, called or run by
\* the timer callback, while the controller is playing, not paused and
\* autoAdvance is enabled, leaves exactly one timer pending, armed for the
\* full configured delay: whatever was pending before is cancelled.
C30_FreshDelayWindow ==
  [][(/\ op' \in {"next", "previous", "goToStep", "timer"}
      /\ ret' = "true"
      /\ state.isPlaying /\ ~state.isPaused
      /\ settings.autoAdvance)
     => timers' = FullDelayTimer']_vars

\* C31: a timer callback that runs while the controller is paused or not
\* playing changes no field of the controller state and fires no event.
C31_StaleCallbackIsNoOp ==
  [][(op' = "timer" /\ (state.isPaused \/ ~state.isPlaying)) =>
       (state' = state /\ fired' = <<>>)]_vars

\* A callback has run on a loaded controller that is not playing and had a
\* next step to go to.
C31_Witness ==
  /\ op = "timer"
  /\ ~state.isPlaying
  /\ ~state.isCompleted
  /\ N >= 2
  /\ state.currentStepIndex = 0
  /\ fired = <<>>

\* C32: a previous() that succeeds on a completed controller clears
\* isCompleted and sets isPlaying.
C32_PreviousReentersPlaying ==
  [][(op' = "previous" /\ ret' = "true" /\ state.isCompleted) =>
       (~state'.isCompleted /\ state'.isPlaying)]_vars

\* C35: in every reachable controller state, isPaused implies isPlaying.
C35_PausedImpliesPlaying == state.isPaused => state.isPlaying

\* C37: the orchestrator passes onComplete to its caller only when the
\* controller's state is completed.
C37_OnCompleteMeansCompleted ==
  CountIn(fired, "onComplete") > 0 => state.isCompleted

\* C40: the timer whose id the controller holds is pending only if
\* autoAdvance is enabled and the controller is playing and not paused.
C40_TimerOnlyWhilePlaying ==
  Held(timers) # EmptyBag =>
    (settings.autoAdvance /\ state.isPlaying /\ ~state.isPaused)

\* C36: with autoAdvance enabled and a plan of at least one step, after
\* start() and with no pause, stop, load or destroy, onComplete fires once,
\* on the step that completes, and while the controller is completed no
\* timer is pending and a timer callback fires no event.
C36_CompletedIsQuiet ==
  /\ [](state.isCompleted => timers = EmptyBag)
  /\ [][/\ CountIn(fired', "onComplete") > 0 =>
             (~state.isCompleted /\ CountIn(fired', "onComplete") = 1)
        /\ (state.isCompleted /\ op' = "timer") =>
             (fired' = <<>> /\ state' = state)]_vars

\* C34: any two calls of the wrapped function made through one RateLimiter
\* start at least minInterval apart, also when throttle() is called while
\* an earlier throttle() is still waiting.
C34_MinimumInterval ==
  \A i, j \in DOMAIN limiter.started :
    i < j => limiter.started[j] - limiter.started[i] >= MinInterval

\* C33: after stop(), setEnabled(false) or destroy(), a speak() that was
\* waiting for the voice list starts no utterance: the step that follows
\* one of them hands nothing to the speech engine.
C33_StopInvalidatesInFlight ==
  [][(op \in {"stop", "destroy"} \/ (op = "setEnabled" /\ ~tts.enabled)) =>
       tts'.handed = tts.handed]_vars

\* The drain loops of processQueue that have not returned: each is
\* suspended at its await of one speak() call.
Loops(t) == Cardinality({i \in DOMAIN t.calls : t.calls[i].loop})

\* C38: at most one drain loop is active, and isProcessing is true exactly
\* while one is.
C38_OneDrainLoop ==
  /\ Loops(tts) <= 1
  /\ tts.isProcessing = (Loops(tts) = 1)

====
